---- MODULE Spec2Model ----
(***************************************************************************)
(* Model of the weekly controversy monitor: the metrics aggregation of     *)
(* src/main.py (calculate_company_metrics, calculate_portfolio_summary),   *)
(* the period keys and the run loop of main(), and the report store of     *)
(* src/state_manager.py.                                                   *)
(*                                                                         *)
(* Python values are modelled as follows.  A dict is a function whose      *)
(* DOMAIN is its key set (EmptyDict is {}), a list is a sequence, None or  *)
(* an absent value is the empty sequence and a present optional value v is *)
(* <<v>>.  A float is a binary64 value kept as sign, exponent and the 53   *)
(* bits of its significand, so that division, multiplication and           *)
(* subtraction round as the interpreter rounds them.                       *)
(***************************************************************************)
EXTENDS Integers, Sequences, FiniteSets, TLC

VARIABLES
    \* one call of each aggregation function on the same arguments
    arg_incidents,      \* the incident list passed in
    arg_prior,          \* the prior snapshot passed in, or None
    ret_company,        \* what calculate_company_metrics returned, or None
    ret_portfolio       \* what calculate_portfolio_summary returned, or None

aggVars == <<arg_incidents, arg_prior, ret_company, ret_portfolio>>

VARIABLES
    \* the period keys of two runs of the same portfolio
    run_dates,          \* run_dates[r]: the date of datetime.now() in run r
    run_keys            \* run_keys[r]: None, or the keys computed by run r

keyVars == <<run_dates, run_keys>>

VARIABLES
    \* the file system under reports/ and the calls made on the store
    reports_dir,        \* whether the directory reports/ exists
    files,              \* files[path]: the JSON document written to path
    last_call,          \* the last call on the store and what it returned
    saved               \* saved[key]: the reports passed to save_state, in order

storeVars == <<reports_dir, files, last_call, saved>>

VARIABLES
    \* the runs of main(), one after the other
    pc,        \* where the current run stands; "idle" between runs
    runs,      \* the number of runs started so far
    main,      \* the local variables of main(), by name
    raised,    \* None, or the call whose exception left main()
    trace,     \* the calls of the current run on the store, the aggregator
               \* and the renderer, in the order made
    completed, \* the runs that returned from main(), oldest first
    output_files  \* the paths of the files in the output directory

VARIABLES
    \* the analysis of the companies in the current run
    provider,  \* LLM_PROVIDER, lower case
    analyses   \* per company processed, what the analyzer was given and gave

llmVars == <<provider, analyses>>

VARIABLES
    \* the rendering and the delivery of the current run
    rendered,     \* None, or the report passed to generate_all_outputs
    email_result  \* None, or what the email step of the run came to

mailVars == <<rendered, email_result>>

runVars == <<pc, runs, main, raised, trace, completed, output_files, llmVars,
             mailVars>>

vars == <<aggVars, keyVars, storeVars, runVars>>

(***************************************************************************)
(* Bounds of the model.                                                    *)
(***************************************************************************)
\* longest incident list handed to the aggregation functions
MaxLen == 7
\* largest total_incidents of a prior snapshot handed to them
MaxPriorTotal == 2
\* the run dates considered: NumDays days from FirstDay on (date ordinals
\* as of date.toordinal(); 738879 is Monday 2023-12-25)
FirstDay == 738879
NumDays == 385
\* largest number of days between the two runs whose keys are compared
MaxGap == 370
\* most reports saved under one key
MaxSaves == 2
\* most runs of main() in a behaviour
MaxRuns == 2

(***************************************************************************)
(* binary64 arithmetic.  A significand is a bit string, most significant   *)
(* bit first; arithmetic on bit strings goes through limbs of LimbBits     *)
(* bits, least significant limb first.                                     *)
(***************************************************************************)
\* significand width of a Python float
Prec == 53

\* width of a limb
LimbBits == 20

Zeros(k) == [i \in 1..k |-> 0]

Front(b) == SubSeq(b, 1, Len(b) - 1)

Max(x, y) == IF x > y THEN x ELSE y

Min(x, y) == IF x < y THEN x ELSE y

\* the bits of a natural n < 2^30, without leading zeros
BitsOfNat(n) ==
    IF n = 0 THEN <<>>
    ELSE LET len == CHOOSE l \in 1..30 : 2^(l - 1) <= n /\ n < 2^l
         IN  [i \in 1..len |-> (n \div 2^(len - i)) % 2]

\* the value of the bits b[lo..hi], at most 30 of them
RECURSIVE BitsVal(_, _, _)
BitsVal(b, lo, hi) ==
    IF lo > hi THEN 0
    ELSE IF lo = hi THEN b[lo]
    ELSE LET mid == (lo + hi) \div 2
         IN  BitsVal(b, lo, mid) * 2^(hi - mid) + BitsVal(b, mid + 1, hi)

NatOfBits(b) == BitsVal(b, 1, Len(b))

StripZeros(b) ==
    IF \A i \in 1..Len(b) : b[i] = 0 THEN <<>>
    ELSE LET first == CHOOSE i \in 1..Len(b) :
                          b[i] = 1 /\ \A j \in 1..(i - 1) : b[j] = 0
         IN  SubSeq(b, first, Len(b))

\* b + 1; one bit longer than b when b is all ones
IncBits(b) ==
    IF \A i \in 1..Len(b) : b[i] = 1 THEN <<1>> \o Zeros(Len(b))
    ELSE LET last == CHOOSE i \in 1..Len(b) :
                         b[i] = 0 /\ \A j \in (i + 1)..Len(b) : b[j] = 1
         IN  [i \in 1..Len(b) |->
                 IF i < last THEN b[i] ELSE IF i = last THEN 1 ELSE 0]

Limbs(b) ==
    [j \in 1..((Len(b) + LimbBits - 1) \div LimbBits) |->
        BitsVal(b, Max(1, Len(b) - j * LimbBits + 1),
                Len(b) - (j - 1) * LimbBits)]

BitsOfLimbs(l) ==
    [i \in 1..(LimbBits * Len(l)) |->
        LET p == LimbBits * Len(l) - i
        IN  (l[p \div LimbBits + 1] \div 2^(p % LimbBits)) % 2]

\* l * n + carry for a natural n < 2^10
RECURSIVE MulLimbs(_, _, _)
MulLimbs(l, n, carry) ==
    IF l = <<>> THEN (IF carry = 0 THEN <<>> ELSE <<carry>>)
    ELSE LET d == l[1] * n + carry
         IN  IF d < 2^LimbBits THEN <<d>> \o MulLimbs(Tail(l), n, 0)
             ELSE <<d % 2^LimbBits>> \o MulLimbs(Tail(l), n, d \div 2^LimbBits)

\* b * n for a natural n < 2^10, without leading zeros
MulBits(b, n) == StripZeros(BitsOfLimbs(MulLimbs(Limbs(b), n, 0)))

PadTo(b, k) == Zeros(k - Len(b)) \o b

\* a < b for bit strings of equal length
LessBits(a, b) ==
    \E i \in 1..Len(a) : a[i] < b[i] /\ \A j \in 1..(i - 1) : a[j] = b[j]

\* a - b - borrow for limb strings of equal length with a >= b + borrow
RECURSIVE SubLimbs(_, _, _)
SubLimbs(a, b, borrow) ==
    IF a = <<>> THEN <<>>
    ELSE LET d == a[1] - b[1] - borrow
         IN  IF d < 0 THEN <<d + 2^LimbBits>> \o SubLimbs(Tail(a), Tail(b), 1)
             ELSE <<d>> \o SubLimbs(Tail(a), Tail(b), 0)

\* |a - b| of two bit strings, without leading zeros
AbsDiffBits(a, b) ==
    LET k  == Max(Len(a), Len(b))
        pa == PadTo(a, k)
        pb == PadTo(b, k)
    IN  IF LessBits(pa, pb)
        THEN StripZeros(BitsOfLimbs(SubLimbs(Limbs(pb), Limbs(pa), 0)))
        ELSE StripZeros(BitsOfLimbs(SubLimbs(Limbs(pa), Limbs(pb), 0)))

\* round to nearest, ties to even: b starts with 1, sticky says that
\* non-zero bits follow b; the result is <<significand, exponent carry>>
RoundNearestEven(b, sticky) ==
    IF Len(b) <= Prec THEN <<b \o Zeros(Prec - Len(b)), 0>>
    ELSE LET keep  == SubSeq(b, 1, Prec)
             guard == b[Prec + 1]
             rest  == sticky \/ \E i \in (Prec + 2)..Len(b) : b[i] = 1
             up    == guard = 1 /\ (rest \/ keep[Prec] = 1)
             inc   == IncBits(keep)
         IN  IF ~up THEN <<keep, 0>>
             ELSE IF Len(inc) > Prec THEN <<SubSeq(inc, 1, Prec), 1>>
             ELSE <<inc, 0>>

\* the float 0.0
FZero == [sign |-> 0, exp |-> 0, mant |-> <<>>]

\* float(k) for a natural k below 2^53: exact
FromInt(k) ==
    IF k = 0 THEN FZero
    ELSE LET b == BitsOfNat(k)
         IN  [sign |-> 0, exp |-> Len(b) - 1, mant |-> b \o Zeros(Prec - Len(b))]

\* 2^k modulo d, for d < 2^15
RECURSIVE Pow2Mod(_, _)
Pow2Mod(k, d) ==
    IF k = 0 THEN 1 % d
    ELSE LET h == Pow2Mod(k \div 2, d)
         IN  (((h * h) % d) * (IF k % 2 = 1 THEN 2 ELSE 1)) % d

\* k bits of the binary expansion of r / d for r < d < 2^15, and the
\* remainder of r * 2^k
QuotBits(r, d, k) ==
    <<[i \in 1..k |-> (2 * ((r * Pow2Mod(i - 1, d)) % d)) \div d],
      (r * Pow2Mod(k, d)) % d>>

\* the e with d * 2^e <= s < d * 2^(e+1), for s >= d
ExpUp(s, d) == CHOOSE e \in 0..15 : d * 2^e <= s /\ s < d * 2^(e + 1)

\* the k with s * 2^k >= d > s * 2^(k-1), for 0 < s < d
ExpDown(s, d) == CHOOSE k \in 1..15 : s * 2^k >= d /\ d > s * 2^(k - 1)

\* s / n of two integers, 0 <= s < 2^15 and 0 < n < 2^10: the correctly
\* rounded quotient
TrueDiv(s, n) ==
    IF s = 0 THEN FZero
    ELSE LET e == IF s >= n THEN ExpUp(s, n) ELSE 0 - ExpDown(s, n)
             a == IF e >= 0 THEN s ELSE s * 2^(0 - e)
             d == IF e >= 0 THEN n * 2^e ELSE n
             q == QuotBits(a - d, d, Prec)
             r == RoundNearestEven(<<1>> \o q[1], q[2] # 0)
         IN  [sign |-> 0, exp |-> e + r[2], mant |-> r[1]]

\* n * f for a natural n and a float f >= 0: the correctly rounded product
FMulNat(f, n) ==
    IF f = FZero \/ n = 0 THEN FZero
    ELSE LET p == MulBits(f.mant, n)
             r == RoundNearestEven(p, FALSE)
         IN  [sign |-> 0, exp |-> f.exp + (Len(p) - Prec) + r[2], mant |-> r[1]]

\* a - b of two floats a, b >= 0: the correctly rounded difference
FSub(a, b) ==
    IF b = FZero THEN a
    ELSE IF a = FZero THEN [b EXCEPT !.sign = 1]
    ELSE LET emin == IF a.exp < b.exp THEN a.exp ELSE b.exp
             xa   == a.mant \o Zeros(a.exp - emin)
             xb   == b.mant \o Zeros(b.exp - emin)
             k    == Max(Len(xa), Len(xb))
             neg  == LessBits(PadTo(xa, k), PadTo(xb, k))
             d    == AbsDiffBits(xa, xb)
             r    == RoundNearestEven(d, FALSE)
         IN  IF d = <<>> THEN FZero
             ELSE [sign |-> IF neg THEN 1 ELSE 0,
                   exp  |-> emin + (Len(d) - Prec) + r[2],
                   mant |-> r[1]]

\* a < b for two floats a, b >= 0
FLess(a, b) ==
    IF b = FZero THEN FALSE
    ELSE IF a = FZero THEN TRUE
    ELSE a.exp < b.exp \/ (a.exp = b.exp /\ LessBits(a.mant, b.mant))

(***************************************************************************)
(* Python dicts and optional values.                                       *)
(***************************************************************************)
EmptyDict == [k \in {} |-> 0]

\* d.get(k, default)
Get(d, k, default) == IF k \in DOMAIN d THEN d[k] ELSE default

\* d[k] = v
Put(d, k, v) == [c \in DOMAIN d \cup {k} |-> IF c = k THEN v ELSE d[c]]

None == <<>>

Some(v) == <<v>>

(***************************************************************************)
(* The aggregation functions of src/main.py.                               *)
(***************************************************************************)
RECURSIVE SumSeverity(_)
SumSeverity(incidents) ==
    IF incidents = <<>> THEN 0
    ELSE incidents[1].severity + SumSeverity(Tail(incidents))

\* the mean taken with floor division (//) instead of true division
AvgSeverityFloorDiv(incidents) ==
    IF Len(incidents) > 0
    THEN FromInt(SumSeverity(incidents) \div Len(incidents))
    ELSE FZero

\* avg_severity = sum(...) / total_incidents if total_incidents > 0 else 0.0
AvgSeverity(incidents) ==
    IF Len(incidents) > 0 THEN TrueDiv(SumSeverity(incidents), Len(incidents))
    ELSE FZero

\* the count with a strict comparison (severity > 4)
CountSev45Strict(incidents) ==
    Cardinality({i \in 1..Len(incidents) : incidents[i].severity > 4})

\* count_sev_4_5 = sum(1 for i in incidents if i['severity'] >= 4)
CountSev45(incidents) ==
    Cardinality({i \in 1..Len(incidents) : incidents[i].severity >= 4})

\* the loop with by_category[cat] = 1, forgetting the earlier tally
RECURSIVE ByCategoryOverwrite(_)
ByCategoryOverwrite(incidents) ==
    IF incidents = <<>> THEN EmptyDict
    ELSE Put(ByCategoryOverwrite(Front(incidents)),
             incidents[Len(incidents)].category, 1)

\* the loop by_category[cat] = by_category.get(cat, 0) + 1
RECURSIVE ByCategory(_)
ByCategory(incidents) ==
    IF incidents = <<>> THEN EmptyDict
    ELSE LET n    == Len(incidents)
             rest == ByCategory(Front(incidents))
             cat  == incidents[n].category
         IN  Put(rest, cat, Get(rest, cat, 0) + 1)

\* the deltas taken against zero when there is no prior
WowDeltaAgainstZero(total_incidents, avg_severity, prior) ==
    IF prior # None
    THEN [total_incidents |-> total_incidents - prior[1].total_incidents,
          avg_severity    |-> FSub(avg_severity, prior[1].avg_severity)]
    ELSE [total_incidents |-> total_incidents, avg_severity |-> avg_severity]

\* the deltas skipped when the prior total is 0 (truth value of the count
\* instead of the snapshot)
WowDeltaIfPriorTotal(total_incidents, avg_severity, prior) ==
    IF prior # None /\ prior[1].total_incidents # 0
    THEN [total_incidents |-> total_incidents - prior[1].total_incidents,
          avg_severity    |-> FSub(avg_severity, prior[1].avg_severity)]
    ELSE EmptyDict

\* wow_delta = {}; if prior: the two differences against the prior snapshot
WowDelta(total_incidents, avg_severity, prior) ==
    IF prior # None
    THEN [total_incidents |-> total_incidents - prior[1].total_incidents,
          avg_severity    |-> FSub(avg_severity, prior[1].avg_severity)]
    ELSE EmptyDict

\* the trend also looking at the severity delta when the counts are equal
TrendWithSeverity(wow_delta) ==
    IF Get(wow_delta, "total_incidents", 0) > 0 THEN "Worsening"
    ELSE IF Get(wow_delta, "total_incidents", 0) < 0 THEN "Improving"
    ELSE IF /\ "avg_severity" \in DOMAIN wow_delta
            /\ wow_delta.avg_severity # FZero
            /\ wow_delta.avg_severity.sign = 0
         THEN "Worsening"
    ELSE "Stable"

\* trend from wow_delta.get("total_incidents", 0)
Trend(wow_delta) ==
    IF Get(wow_delta, "total_incidents", 0) > 0 THEN "Worsening"
    ELSE IF Get(wow_delta, "total_incidents", 0) < 0 THEN "Improving"
    ELSE "Stable"

\* prior_company_data is None or a company report; only its weekly_metrics
\* are read
calculate_company_metrics(incidents, prior_company_data) ==
    LET total_incidents == Len(incidents)
        avg_severity    == AvgSeverity(incidents)
        prior           == IF prior_company_data # None
                           THEN Some(prior_company_data[1].weekly_metrics)
                           ELSE None
        wow_delta       == WowDelta(total_incidents, avg_severity, prior)
    IN  [total_incidents |-> total_incidents,
         avg_severity    |-> avg_severity,
         count_sev_4_5   |-> CountSev45(incidents),
         by_category     |-> ByCategory(incidents),
         wow_delta       |-> wow_delta,
         trend           |-> Trend(wow_delta)]

\* a portfolio summary with its own notion of a severe incident
PortfolioSummaryStrictSevere(all_incidents, prior_summary) ==
    LET total_incidents == Len(all_incidents)
        avg_severity    == AvgSeverity(all_incidents)
        wow_delta       == WowDelta(total_incidents, avg_severity, prior_summary)
    IN  [total_incidents |-> Len(all_incidents),
         avg_severity    |-> avg_severity,
         count_sev_4_5   |-> CountSev45Strict(all_incidents),
         by_category     |-> ByCategory(all_incidents),
         wow_delta       |-> wow_delta,
         trend           |-> Trend(wow_delta),
         notes           |-> IF prior_summary = None
                             THEN "Initial run, no trend data available."
                             ELSE "Week-over-week comparison."]

calculate_portfolio_summary(all_incidents, prior_summary) ==
    LET total_incidents == Len(all_incidents)
        avg_severity    == AvgSeverity(all_incidents)
        wow_delta       == WowDelta(total_incidents, avg_severity, prior_summary)
    IN  [total_incidents |-> Len(all_incidents),
         avg_severity    |-> avg_severity,
         count_sev_4_5   |-> CountSev45(all_incidents),
         by_category     |-> ByCategory(all_incidents),
         wow_delta       |-> wow_delta,
         trend           |-> Trend(wow_delta),
         notes           |-> IF prior_summary = None
                             THEN "Initial run, no trend data available."
                             ELSE "Week-over-week comparison."]

(***************************************************************************)
(* SpecAgg: the two aggregation functions applied to every incident list   *)
(* of at most MaxLen incidents and every prior snapshot, or none.          *)
(***************************************************************************)
\* the incidents an analyzer can return, reduced to the fields that the
\* aggregation reads
IncidentPool ==
    { [category |-> "Governance/Legal", severity |-> 4],
      [category |-> "Environmental", severity |-> 2],
      [category |-> "Social/Human Capital", severity |-> 5] }

IncidentLists(maxlen) == UNION { [1..n -> IncidentPool] : n \in 0..maxlen }

\* a stored metrics snapshot with pt incidents of severity sum ps
Snapshot(pt, ps) ==
    [total_incidents |-> pt,
     avg_severity    |-> IF pt > 0 THEN TrueDiv(ps, pt) ELSE FZero]

PriorSums(pt) == IF pt = 0 THEN {0} ELSE {pt, 3 * pt + 1, 5 * pt}

PriorSnapshots ==
    { Snapshot(p[1], p[2]) :
        p \in { q \in (0..MaxPriorTotal) \X (0..(5 * MaxPriorTotal)) :
                  q[2] \in PriorSums(q[1]) } }

\* the variables of the aggregation calls before any call
AggIdle ==
    /\ arg_incidents = <<>>
    /\ arg_prior = None
    /\ ret_company = None
    /\ ret_portfolio = None

\* the variables of the period keys before any run
KeysIdle ==
    /\ run_dates = <<>>
    /\ run_keys = <<>>

\* an empty working directory on which no call was made
StoreIdle ==
    /\ reports_dir = FALSE
    /\ files = EmptyDict
    /\ last_call = <<>>
    /\ saved = EmptyDict

\* the local variables of main() before its first statement
NoLocals ==
    [run_date              |-> 0,
     week_key              |-> "",
     last_week_key         |-> "",
     portfolio_data        |-> <<>>,
     prior_state           |-> None,
     all_incidents         |-> <<>>,
     output_companies_data |-> <<>>,
     final_report          |-> None]

\* no run of main() started
RunIdle ==
    /\ pc = "idle"
    /\ runs = 0
    /\ main = NoLocals
    /\ raised = None
    /\ trace = <<>>
    /\ completed = <<>>
    /\ output_files = {}
    /\ provider = "google"
    /\ analyses = <<>>
    /\ rendered = None
    /\ email_result = None

InitAgg ==
    /\ arg_incidents \in IncidentLists(MaxLen)
    /\ arg_prior \in {None} \cup { Some(p) : p \in PriorSnapshots }
    /\ ret_company = None
    /\ ret_portfolio = None
    /\ KeysIdle
    /\ StoreIdle
    /\ RunIdle

\* metrics = calculate_company_metrics(incidents, prior company report)
AggregateCompany ==
    /\ ret_company = None
    /\ ret_company' =
         Some(calculate_company_metrics(
                arg_incidents,
                IF arg_prior = None THEN None
                ELSE Some([weekly_metrics |-> arg_prior[1]])))
    /\ UNCHANGED <<arg_incidents, arg_prior, ret_portfolio, keyVars, storeVars, runVars>>

\* summary = calculate_portfolio_summary(incidents, prior summary)
AggregatePortfolio ==
    /\ ret_portfolio = None
    /\ ret_portfolio' = Some(calculate_portfolio_summary(arg_incidents, arg_prior))
    /\ UNCHANGED <<arg_incidents, arg_prior, ret_company, keyVars, storeVars, runVars>>

NextAgg == AggregateCompany \/ AggregatePortfolio

SpecAgg == InitAgg /\ [][NextAgg]_vars

\* the six fields a company snapshot and a portfolio summary share
MetricKeys ==
    {"total_incidents", "avg_severity", "count_sev_4_5", "by_category",
     "wow_delta", "trend"}

\* the snapshots returned so far in the current state
Returned ==
    (IF ret_company = None THEN {} ELSE {ret_company[1]})
        \cup (IF ret_portfolio = None THEN {}
              ELSE {[k \in MetricKeys |-> ret_portfolio[1][k]]})

\* C1: with a prior snapshot, the trend of both functions is Worsening iff
\* the current total_incidents exceeds the prior one, Improving iff it is
\* smaller and Stable iff they are equal, whatever the average severities.
TrendFollowsCountDelta ==
    arg_prior # None =>
        \A m \in Returned :
            /\ (m.trend = "Worsening") <=>
                   (m.total_incidents > arg_prior[1].total_incidents)
            /\ (m.trend = "Improving") <=>
                   (m.total_incidents < arg_prior[1].total_incidents)
            /\ (m.trend = "Stable") <=>
                   (m.total_incidents = arg_prior[1].total_incidents)

\* both functions returned for equal counts and a higher current average
TrendStableDespiteSeverity ==
    /\ arg_prior # None /\ ret_company # None /\ ret_portfolio # None
    /\ Len(arg_incidents) = arg_prior[1].total_incidents
    /\ FLess(arg_prior[1].avg_severity, ret_company[1].avg_severity)
    /\ ret_company[1].trend = "Stable" /\ ret_portfolio[1].trend = "Stable"

\* C2: without a prior, both functions return an empty wow_delta and the
\* trend Stable, for empty and non-empty incident lists alike.
NoPriorNoDelta ==
    arg_prior = None =>
        \A m \in Returned : m.wow_delta = EmptyDict /\ m.trend = "Stable"

\* both functions returned for a non-empty list and no prior
NoPriorReturned ==
    /\ arg_prior = None /\ Len(arg_incidents) > 0
    /\ ret_company # None /\ ret_portfolio # None
    /\ ret_company[1].wow_delta = EmptyDict
    /\ ret_portfolio[1].wow_delta = EmptyDict

\* C3: with a prior snapshot, wow_delta has exactly the keys total_incidents
\* and avg_severity, holding current minus prior of each.
DeltaIsCurrentMinusPrior ==
    arg_prior # None =>
        \A m \in Returned :
            /\ DOMAIN m.wow_delta = {"total_incidents", "avg_severity"}
            /\ m.wow_delta.total_incidents =
                   m.total_incidents - arg_prior[1].total_incidents
            /\ m.wow_delta.avg_severity =
                   FSub(m.avg_severity, arg_prior[1].avg_severity)
            /\ (m.wow_delta.avg_severity = FZero) <=>
                   (m.avg_severity = arg_prior[1].avg_severity)
            /\ (m.wow_delta.avg_severity.sign = 1) <=>
                   FLess(m.avg_severity, arg_prior[1].avg_severity)

\* both functions returned a zero delta against a prior snapshot of total 0
ZeroPriorZeroDelta ==
    /\ arg_prior # None /\ arg_prior[1].total_incidents = 0
    /\ ret_company # None /\ ret_portfolio # None
    /\ ret_company[1].wow_delta.total_incidents = 0
    /\ ret_portfolio[1].wow_delta.total_incidents = 0

\* f is a float nearest to the exact quotient s / n: with M the significand
\* of f as an integer, 2 * |M * n - s * 2^(52 - exp)| <= n
NearestToQuotient(f, s, n) ==
    /\ f.sign = 0 /\ Len(f.mant) = Prec /\ f.mant[1] = 1
    /\ f.exp <= Prec - 1
    /\ LET prod   == MulBits(f.mant, n)
           scaled == BitsOfNat(s) \o Zeros(Prec - 1 - f.exp)
           diff   == AbsDiffBits(prod, scaled)
       IN  Len(diff) <= 8 /\ 2 * NatOfBits(diff) <= n

\* C4 as stated: avg_severity is 0 for the empty list and otherwise
\* avg_severity * total_incidents = sum of the severities, exactly.
AvgTimesTotalIsSum ==
    \A m \in Returned :
        IF arg_incidents = <<>> THEN m.avg_severity = FZero
        ELSE FMulNat(m.avg_severity, m.total_incidents)
                 = FromInt(SumSeverity(arg_incidents))

\* C4 as amended: avg_severity is 0.0 for the empty list and otherwise the
\* float nearest to the exact mean sum / total_incidents, total_incidents
\* being the length of the list.
AvgIsRoundedMean ==
    \A m \in Returned :
        /\ m.total_incidents = Len(arg_incidents)
        /\ IF arg_incidents = <<>> THEN m.avg_severity = FZero
           ELSE NearestToQuotient(m.avg_severity, SumSeverity(arg_incidents),
                                  m.total_incidents)

\* both functions returned a mean whose product with the count is not the sum
AvgProductOffSum ==
    /\ ret_company # None /\ ret_portfolio # None
    /\ arg_incidents # <<>>
    /\ ret_company[1].avg_severity = ret_portfolio[1].avg_severity
    /\ FMulNat(ret_company[1].avg_severity, Len(arg_incidents))
           # FromInt(SumSeverity(arg_incidents))

\* the categories of a list and the number of incidents of category c
CategoriesOf(incidents) == { incidents[i].category : i \in 1..Len(incidents) }

RECURSIVE CountCategory(_, _)
CountCategory(incidents, c) ==
    IF incidents = <<>> THEN 0
    ELSE (IF incidents[1].category = c THEN 1 ELSE 0)
             + CountCategory(Tail(incidents), c)

RECURSIVE SumValues(_)
SumValues(d) ==
    IF DOMAIN d = {} THEN 0
    ELSE LET k == CHOOSE c \in DOMAIN d : TRUE
         IN  d[k] + SumValues([c \in DOMAIN d \ {k} |-> d[c]])

\* C5: by_category has exactly the categories that occur as keys, each with
\* its number of incidents, no value 0, and the values sum to
\* total_incidents.
ByCategoryTallies ==
    \A m \in Returned :
        /\ DOMAIN m.by_category = CategoriesOf(arg_incidents)
        /\ \A c \in DOMAIN m.by_category :
               /\ m.by_category[c] = CountCategory(arg_incidents, c)
               /\ m.by_category[c] # 0
        /\ SumValues(m.by_category) = m.total_incidents

\* both functions tallied a list in which a category occurs twice and
\* another category does not occur
ByCategoryRepeated ==
    /\ ret_company # None /\ ret_portfolio # None
    /\ \E c \in DOMAIN ret_company[1].by_category :
           ret_company[1].by_category[c] >= 2
    /\ "Environmental" \notin DOMAIN ret_portfolio[1].by_category
    /\ ret_portfolio[1].by_category = ret_company[1].by_category

RECURSIVE CountSevere(_)
CountSevere(incidents) ==
    IF incidents = <<>> THEN 0
    ELSE (IF incidents[1].severity >= 4 THEN 1 ELSE 0)
             + CountSevere(Tail(incidents))

\* C6: count_sev_4_5 is the number of incidents of severity at least 4 and
\* never exceeds total_incidents.
CountSev45IsSevere ==
    \A m \in Returned :
        /\ m.count_sev_4_5 = CountSevere(arg_incidents)
        /\ m.count_sev_4_5 <= m.total_incidents

\* both functions counted a list holding severities 2, 4 and 5
CountSev45Mixed ==
    /\ ret_company # None /\ ret_portfolio # None
    /\ {arg_incidents[i].severity : i \in 1..Len(arg_incidents)} = {2, 4, 5}
    /\ ret_company[1].count_sev_4_5 < Len(arg_incidents)
    /\ ret_portfolio[1].count_sev_4_5 >= 2

\* C14: on the same incidents and the same prior snapshot (handed to the
\* company function as the weekly_metrics of a company report), the company
\* metrics and the portfolio summary agree on the six shared fields, and the
\* summary has the notes field besides.
CompanyAndPortfolioAgree ==
    (ret_company # None /\ ret_portfolio # None) =>
        /\ DOMAIN ret_company[1] = MetricKeys
        /\ DOMAIN ret_portfolio[1] = MetricKeys \cup {"notes"}
        /\ \A k \in MetricKeys : ret_company[1][k] = ret_portfolio[1][k]

\* both functions returned for severe incidents and a prior snapshot with a
\* different count and average
BothReturnedWithDelta ==
    /\ ret_company # None /\ ret_portfolio # None /\ arg_prior # None
    /\ ret_portfolio[1].count_sev_4_5 > 1
    /\ ret_portfolio[1].trend = "Worsening"
    /\ ret_company[1].wow_delta.avg_severity # FZero
    /\ Cardinality(DOMAIN ret_company[1].by_category) > 1

(***************************************************************************)
(* Dates and period keys (main, step 1).  A date is its proleptic          *)
(* Gregorian ordinal, as date.toordinal() numbers it.                      *)
(***************************************************************************)
\* days before January 1st of year y
DaysBeforeYear(y) ==
    (y - 1) * 365 + (y - 1) \div 4 - (y - 1) \div 100 + (y - 1) \div 400

\* run_date.year: the calendar year of a date
YearOf(ord) ==
    CHOOSE y \in 2000..2100 :
        DaysBeforeYear(y) < ord /\ ord <= DaysBeforeYear(y + 1)

\* the ordinal of the Monday that starts ISO week 1 of a year
IsoWeek1Monday(year) ==
    LET firstday     == DaysBeforeYear(year) + 1
        firstweekday == (firstday + 6) % 7
        week1monday  == firstday - firstweekday
    IN  IF firstweekday > 3 THEN week1monday + 7 ELSE week1monday

\* run_date.isocalendar(): <<ISO year, ISO week, ISO weekday>>
IsoCalendar(ord) ==
    LET year == YearOf(ord)
        week == (ord - IsoWeek1Monday(year)) \div 7
        day  == (ord - IsoWeek1Monday(year)) % 7
    IN  IF ord < IsoWeek1Monday(year)
        THEN <<year - 1, (ord - IsoWeek1Monday(year - 1)) \div 7 + 1, day + 1>>
        ELSE IF week >= 52 /\ ord >= IsoWeek1Monday(year + 1)
        THEN <<year + 1, 1, day + 1>>
        ELSE <<year, week + 1, day + 1>>

\* f"{portfolio_name}-{year}-W{week}"
FormatKey(portfolio_name, year, week) ==
    portfolio_name \o "-" \o ToString(year) \o "-W" \o ToString(week)

\* os.getenv("PORTFOLIO_NAME", "PortfolioName") with the variable unset
portfolio_name == "PortfolioName"

\* week_key of a run on run_date
WeekKey(run_date) ==
    FormatKey(portfolio_name, YearOf(run_date), IsoCalendar(run_date)[2])

\* last_week_key built from the ISO year of run_date - 7 days, while week_key
\* keeps the calendar year
LastWeekKeyIsoYear(run_date) ==
    FormatKey(portfolio_name, IsoCalendar(run_date - 7)[1],
              IsoCalendar(run_date - 7)[2])

\* last_week_key of a run on run_date: the same from run_date - 7 days
LastWeekKey(run_date) ==
    FormatKey(portfolio_name, YearOf(run_date - 7), IsoCalendar(run_date - 7)[2])

(***************************************************************************)
(* SpecKeys: two runs of the same portfolio, at most MaxGap days apart,    *)
(* each computing its two period keys.                                     *)
(***************************************************************************)
RunDays == FirstDay..(FirstDay + NumDays)

InitKeys ==
    /\ run_dates \in { d \in RunDays \X RunDays :
                         d[1] <= d[2] /\ d[2] - d[1] <= MaxGap }
    /\ run_keys = <<None, None>>
    /\ AggIdle
    /\ StoreIdle
    /\ RunIdle

\* step 1 of main() in run r
ComputeKeys(r) ==
    /\ run_keys[r] = None
    /\ run_keys' = [run_keys EXCEPT ![r] =
                        Some([week_key      |-> WeekKey(run_dates[r]),
                              last_week_key |-> LastWeekKey(run_dates[r])])]
    /\ UNCHANGED <<run_dates, aggVars, storeVars, runVars>>

NextKeys == \E r \in {1, 2} : ComputeKeys(r)

SpecKeys == InitKeys /\ [][NextKeys]_vars

IsoYear(ord) == IsoCalendar(ord)[1]

IsoWeek(ord) == IsoCalendar(ord)[2]

\* C9: a run in ISO week 1 of a new ISO year, whose date 7 days earlier is
\* in week 52 or 53 of the previous ISO year, computes a current key with
\* the new year and a prior key with the previous year.
KeysDifferInYearAtRollover ==
    \A r \in {1, 2} :
        (/\ run_keys[r] # None
         /\ IsoWeek(run_dates[r]) = 1
         /\ IsoWeek(run_dates[r] - 7) \in {52, 53}
         /\ IsoYear(run_dates[r] - 7) = IsoYear(run_dates[r]) - 1)
        => /\ run_keys[r][1].week_key =
                  FormatKey(portfolio_name, IsoYear(run_dates[r]), 1)
           /\ run_keys[r][1].last_week_key =
                  FormatKey(portfolio_name, IsoYear(run_dates[r]) - 1,
                            IsoWeek(run_dates[r] - 7))

\* C10: the current keys of two runs are equal iff the two run dates lie in
\* the same ISO week of the same ISO year.
KeyEqualIffSameIsoWeek ==
    (run_keys[1] # None /\ run_keys[2] # None)
    => ((run_keys[1][1].week_key = run_keys[2][1].week_key)
        <=> (/\ IsoYear(run_dates[1]) = IsoYear(run_dates[2])
             /\ IsoWeek(run_dates[1]) = IsoWeek(run_dates[2])))

(***************************************************************************)
(* The report assembled by main() (steps 2 to 5).                          *)
(***************************************************************************)
\* the rows of data/enriched_portfolio.csv as load_portfolio returns them,
\* reduced to the columns that main() reads
Portfolio ==
    << [company_name |-> "Acme", ticker |-> "ACM"],
       [company_name |-> "Globex", ticker |-> "GBX"] >>

\* days before the first day of month m of year y
DaysBeforeMonth(y, m) ==
    <<0, 31, 59, 90, 120, 151, 181, 212, 243, 273, 304, 334, 365>>[m]
        + (IF m > 2 /\ (y % 4 = 0 /\ (y % 100 # 0 \/ y % 400 = 0)) THEN 1 ELSE 0)

MonthOf(ord) ==
    LET y == YearOf(ord)
    IN  CHOOSE m \in 1..12 :
            /\ DaysBeforeYear(y) + DaysBeforeMonth(y, m) < ord
            /\ ord <= DaysBeforeYear(y) + DaysBeforeMonth(y, m + 1)

DayOf(ord) ==
    ord - DaysBeforeYear(YearOf(ord)) - DaysBeforeMonth(YearOf(ord), MonthOf(ord))

Pad2(n) == IF n < 10 THEN "0" \o ToString(n) ELSE ToString(n)

\* run_date.strftime("%Y-%m-%d")
FormatDate(ord) ==
    ToString(YearOf(ord)) \o "-" \o Pad2(MonthOf(ord)) \o "-" \o Pad2(DayOf(ord))

\* main() never handing the loaded summary to the aggregation
PriorSummaryIgnored(prior_state) == None

\* prior_state.get("portfolio_summary") if prior_state else None
PriorSummary(prior_state) ==
    IF prior_state # None THEN Some(prior_state[1].portfolio_summary) ELSE None

\* the prior companies keyed by their ticker
PriorCompaniesByTicker(prior_state) ==
    IF prior_state = None THEN EmptyDict
    ELSE LET cs == prior_state[1].companies
         IN  [n \in { cs[j].ticker : j \in 1..Len(cs) } |->
                 cs[CHOOSE j \in 1..Len(cs) :
                        /\ cs[j].ticker = n
                        /\ \A k \in (j + 1)..Len(cs) : cs[k].ticker # n]]

\* {c["company_name"]: c for c in prior_state.get("companies", [])}
PriorCompanies(prior_state) ==
    IF prior_state = None THEN EmptyDict
    ELSE LET cs == prior_state[1].companies
         IN  [n \in { cs[j].company_name : j \in 1..Len(cs) } |->
                 cs[CHOOSE j \in 1..Len(cs) :
                        /\ cs[j].company_name = n
                        /\ \A k \in (j + 1)..Len(cs) : cs[k].company_name # n]]

\* a company without incidents this week keeping its metrics of last week
CompanyReportCarryingPrior(company, company_incidents, prior_companies) ==
    [company_name   |-> company.company_name,
     ticker         |-> company.ticker,
     incidents      |-> company_incidents,
     weekly_metrics |->
         IF company_incidents = <<>> /\ company.company_name \in DOMAIN prior_companies
         THEN prior_companies[company.company_name].weekly_metrics
         ELSE calculate_company_metrics(
                  company_incidents,
                  IF company.company_name \in DOMAIN prior_companies
                  THEN Some(prior_companies[company.company_name])
                  ELSE None)]

\* the company_report of one pass of the company loop
CompanyReport(company, company_incidents, prior_companies) ==
    [company_name   |-> company.company_name,
     ticker         |-> company.ticker,
     incidents      |-> company_incidents,
     weekly_metrics |->
         calculate_company_metrics(
             company_incidents,
             IF company.company_name \in DOMAIN prior_companies
             THEN Some(prior_companies[company.company_name])
             ELSE None)]

\* final_report
FinalReport(to_date, portfolio_summary, output_companies_data) ==
    [week_ending       |-> to_date,
     portfolio_summary |-> portfolio_summary,
     companies         |-> output_companies_data]

\* the lists of a sequence of lists, concatenated (all_incidents.extend)
RECURSIVE Extend(_)
Extend(lists) ==
    IF lists = <<>> THEN <<>> ELSE Extend(Front(lists)) \o lists[Len(lists)]

\* the report of a whole run in which the analyzer returned lists[i] for
\* the i-th company
RunReport(run_date, portfolio_data, lists, prior_state) ==
    FinalReport(
        FormatDate(run_date),
        calculate_portfolio_summary(Extend(lists), PriorSummary(prior_state)),
        [i \in 1..Len(portfolio_data) |->
            CompanyReport(portfolio_data[i], lists[i], PriorCompanies(prior_state))])

(***************************************************************************)
(* json.dump and json.load on reports.  A JSON document is <<"object",     *)
(* members>> with members a sequence of <<name, document>>, <<"array",     *)
(* documents>>, <<"number", n>> or <<"string", s>>.                        *)
(***************************************************************************)
JNum(v) == <<"number", v>>

JStr(v) == <<"string", v>>

JArr(docs) == <<"array", docs>>

JObj(members) == <<"object", members>>

\* the categories the analyzers are told to use, in the order of the prompt
Categories ==
    << "Governance/Legal", "Environmental", "Social/Human Capital",
       "Product/Customer", "Financial Integrity" >>

\* a dict from category to count; its members are written in the order of
\* Categories
DumpTally(d) ==
    LET keys == SelectSeq(Categories, LAMBDA c : c \in DOMAIN d)
    IN  JObj([j \in 1..Len(keys) |-> <<keys[j], JNum(d[keys[j]])>>])

DumpWowDelta(w) ==
    IF DOMAIN w = {} THEN JObj(<<>>)
    ELSE JObj(<< <<"total_incidents", JNum(w.total_incidents)>>,
                 <<"avg_severity", JNum(w.avg_severity)>> >>)

DumpMetricMembers(m) ==
    << <<"total_incidents", JNum(m.total_incidents)>>,
       <<"avg_severity", JNum(m.avg_severity)>>,
       <<"count_sev_4_5", JNum(m.count_sev_4_5)>>,
       <<"by_category", DumpTally(m.by_category)>>,
       <<"wow_delta", DumpWowDelta(m.wow_delta)>>,
       <<"trend", JStr(m.trend)>> >>

DumpIncident(i) ==
    JObj(<< <<"category", JStr(i.category)>>, <<"severity", JNum(i.severity)>> >>)

DumpCompany(c) ==
    JObj(<< <<"company_name", JStr(c.company_name)>>,
            <<"ticker", JStr(c.ticker)>>,
            <<"incidents",
              JArr([j \in 1..Len(c.incidents) |-> DumpIncident(c.incidents[j])])>>,
            <<"weekly_metrics", JObj(DumpMetricMembers(c.weekly_metrics))>> >>)

\* json.dump(report, f, indent=2)
JsonDump(report) ==
    JObj(<< <<"week_ending", JStr(report.week_ending)>>,
            <<"portfolio_summary",
              JObj(DumpMetricMembers(report.portfolio_summary)
                       \o << <<"notes", JStr(report.portfolio_summary.notes)>> >>)>>,
            <<"companies",
              JArr([j \in 1..Len(report.companies) |->
                       DumpCompany(report.companies[j])])>> >>)

\* json.load(f): objects become dicts (the last member of a name wins),
\* arrays lists, numbers and strings themselves
RECURSIVE JsonLoad(_)
JsonLoad(doc) ==
    IF doc[1] = "object"
    THEN LET ms == doc[2]
         IN  [k \in { ms[j][1] : j \in 1..Len(ms) } |->
                 JsonLoad(ms[CHOOSE j \in 1..Len(ms) :
                                 /\ ms[j][1] = k
                                 /\ \A l \in (j + 1)..Len(ms) : ms[l][1] # k][2])]
    ELSE IF doc[1] = "array"
    THEN [j \in 1..Len(doc[2]) |-> JsonLoad(doc[2][j])]
    ELSE doc[2]

(***************************************************************************)
(* The report store of src/state_manager.py.                               *)
(***************************************************************************)
\* one file for every key
FilePathShared(week_key) == "reports/report.json"

\* os.path.join(REPORTS_DIR, f"report-{week_key}.json")
FilePath(week_key) == "reports/report-" \o week_key \o ".json"

\* the file system after save_state(week_key, report)
SavedFiles(fs, week_key, report) == Put(fs, FilePath(week_key), JsonDump(report))

\* what load_prior_state(week_key) returns: None without the file
LoadedState(fs, week_key) ==
    IF FilePath(week_key) \notin DOMAIN fs THEN None
    ELSE Some(JsonLoad(fs[FilePath(week_key)]))

\* what a save_state that raised after open() leaves in the file: the
\* beginning of the JSON text, which is not a JSON text
TruncatedText == <<"truncated">>

\* json.load accepts the content
IsJson(content) == content[1] # "truncated"

\* the places where save_state can raise: os.makedirs, open, json.dump
SaveStages == {"makedirs", "open", "dump"}

\* the file system after a save_state(week_key, report) that raised at the
\* given stage: open(filepath, "w") has emptied the file before json.dump
\* writes to it
FailedSaveFiles(fs, week_key, stage) ==
    IF stage = "dump" THEN Put(fs, FilePath(week_key), TruncatedText) ELSE fs

\* load_prior_state(week_key) can return: no file, or one json.load accepts
LoadReturns(fs, week_key) ==
    FilePath(week_key) \in DOMAIN fs => IsJson(fs[FilePath(week_key)])

\* load_prior_state(week_key) can raise: there is a file, so open() and
\* json.load() are called
LoadMayRaise(fs, week_key) == FilePath(week_key) \in DOMAIN fs

(***************************************************************************)
(* The rendered outputs of src/output_generator.py.                        *)
(***************************************************************************)
\* the incidents of all companies of a report
AllIncidentsWithCompanyInfo(companies_data) ==
    Extend([j \in 1..Len(companies_data) |-> companies_data[j].incidents])

\* os.path.join(OUTPUT_DIR, f"report-{week_key}.json")
ReportJsonPath(week_key) == "output/report-" \o week_key \o ".json"

\* os.path.join(OUTPUT_DIR, f"incidents-{week_key}.csv")
IncidentsCsvPath(week_key) == "output/incidents-" \o week_key \o ".csv"

\* os.path.join(OUTPUT_DIR, f"email_body_{week_key}.html")
EmailBodyPath(week_key) == "output/email_body_" \o week_key \o ".html"

\* the paths generate_incidents_csv writes: none when there is no incident
generate_incidents_csv(week_key, companies_data) ==
    IF AllIncidentsWithCompanyInfo(companies_data) = <<>> THEN {}
    ELSE {IncidentsCsvPath(week_key)}

\* the output directory after generate_all_outputs(week_key, report)
generate_all_outputs(paths, week_key, report) ==
    paths \cup {ReportJsonPath(week_key)}
          \cup generate_incidents_csv(week_key, report.companies)
          \cup {EmailBodyPath(week_key)}

(***************************************************************************)
(* SpecStore: any sequence of save_state and load_prior_state calls, on    *)
(* three keys and three reports, with at most MaxSaves saves per key.      *)
(***************************************************************************)
\* Monday 2024-12-23, Monday 2024-12-30 and Thursday 2025-01-02
StoreDates == {739243, 739250, 739253}

StoreKeys == { WeekKey(d) : d \in StoreDates }

EmptyWeekReport == RunReport(739243, Portfolio, << <<>>, <<>> >>, None)

BusyWeekReport ==
    RunReport(739250, Portfolio,
              << << [category |-> "Governance/Legal", severity |-> 4],
                    [category |-> "Environmental", severity |-> 2] >>,
                 << [category |-> "Social/Human Capital", severity |-> 5] >> >>,
              None)

QuietWeekReport ==
    RunReport(739253, Portfolio,
              << << [category |-> "Environmental", severity |-> 2] >>, <<>> >>,
              Some(BusyWeekReport))

StoreReports == {EmptyWeekReport, BusyWeekReport, QuietWeekReport}

InitStore ==
    /\ StoreIdle
    /\ AggIdle
    /\ KeysIdle
    /\ RunIdle

save_state(week_key, report) ==
    /\ Len(Get(saved, week_key, <<>>)) < MaxSaves
    /\ reports_dir' = TRUE
    /\ files' = SavedFiles(files, week_key, report)
    /\ saved' = Put(saved, week_key, Append(Get(saved, week_key, <<>>), report))
    /\ last_call' = <<[op |-> "save", key |-> week_key, ret |-> None]>>
    /\ UNCHANGED <<aggVars, keyVars, runVars>>

load_prior_state(week_key) ==
    /\ LoadReturns(files, week_key)
    /\ last_call' = <<[op  |-> "load", key |-> week_key,
                       ret |-> LoadedState(files, week_key)]>>
    /\ UNCHANGED <<reports_dir, files, saved, aggVars, keyVars, runVars>>

NextStore ==
    \/ \E k \in StoreKeys, r \in StoreReports : save_state(k, r)
    \/ \E k \in StoreKeys : load_prior_state(k)

SpecStore == InitStore /\ [][NextStore]_vars

\* C8: load_prior_state(k) returns the report most recently passed to
\* save_state under k, whatever was saved under other keys, and None when
\* nothing was saved under k.
LoadReturnsLastSaved ==
    (last_call # <<>> /\ last_call[1].op = "load")
    => LET k == last_call[1].key
       IN  IF k \in DOMAIN saved
           THEN last_call[1].ret = Some(saved[k][Len(saved[k])])
           ELSE last_call[1].ret = None

\* a load of a key that was saved twice with different reports, while a
\* third report is stored under another key
LoadAfterOverwrite ==
    /\ last_call # <<>> /\ last_call[1].op = "load"
    /\ last_call[1].key \in DOMAIN saved
    /\ Len(saved[last_call[1].key]) = 2
    /\ saved[last_call[1].key][1] # saved[last_call[1].key][2]
    /\ last_call[1].ret = Some(QuietWeekReport)
    /\ \E k \in DOMAIN saved :
           k # last_call[1].key /\ saved[k][Len(saved[k])] = BusyWeekReport

(***************************************************************************)
(* SpecStoreIO: the calls of SpecStore, each of which may also raise.      *)
(***************************************************************************)
\* save_state(week_key, report) raising at the given stage
save_state_raises(week_key, stage) ==
    /\ stage = "makedirs" => ~reports_dir
    /\ reports_dir' = (reports_dir \/ stage # "makedirs")
    /\ files' = FailedSaveFiles(files, week_key, stage)
    /\ last_call' = <<[op |-> "save", key |-> week_key, ret |-> Some("raised")]>>
    /\ UNCHANGED <<saved, aggVars, keyVars, runVars>>

\* load_prior_state(week_key) raising in open() or json.load()
load_prior_state_raises(week_key) ==
    /\ LoadMayRaise(files, week_key)
    /\ last_call' = <<[op |-> "load", key |-> week_key, ret |-> Some("raised")]>>
    /\ UNCHANGED <<reports_dir, files, saved, aggVars, keyVars, runVars>>

NextStoreIO ==
    \/ \E k \in StoreKeys, r \in StoreReports : save_state(k, r)
    \/ \E k \in StoreKeys, stage \in SaveStages : save_state_raises(k, stage)
    \/ \E k \in StoreKeys : load_prior_state(k)
    \/ \E k \in StoreKeys : load_prior_state_raises(k)

SpecStoreIO == InitStore /\ [][NextStoreIO]_vars

\* C13: once a report was saved under k, the file of k holds that report
\* whatever save_state calls raised since, so that load_prior_state(k)
\* returns the last report saved successfully.
FailedSaveKeepsEarlierReport ==
    \A k \in DOMAIN saved :
        /\ LoadReturns(files, k)
        /\ LoadedState(files, k) = Some(saved[k][Len(saved[k])])

(***************************************************************************)
(* The email step of deliver_and_save_state.                               *)
(***************************************************************************)
\* the values of RESPONSIBLE_EMAIL: unset, or the addresses between its
\* commas
ResponsibleEmails == {None, Some(<<"a@example.org", " b@example.org">>)}

\* the environment read by deliver_and_save_state and send_email
Environments ==
    [RESPONSIBLE_EMAIL   : ResponsibleEmails,
     SENDGRID_FROM_EMAIL : {None, Some("agent@example.org")},
     SENDGRID_API_KEY    : {None, Some("key")}]

\* what the constructor Mail(...) does: it is called before the try block
MailOutcomes == {"built", "raises"}

\* what sg.send(message) does: the status code of the response, or "raises"
SendOutcomes == {"202", "302", "raises"}

\* r.strip()
Strip(r) == IF r = " b@example.org" THEN "b@example.org" ELSE r

\* [r.strip() for r in responsible_email.split(',')]
Recipients(responsible_email) ==
    [i \in 1..Len(responsible_email) |-> Strip(responsible_email[i])]

\* send_email(subject, html_content, recipients): what it returns, or that
\* it raised, and the statement that ended it
send_email(recipients, env, mail, send) ==
    IF env.SENDGRID_FROM_EMAIL = None
    THEN [raised |-> FALSE, value |-> FALSE, at |-> "no sender"]
    ELSE IF env.SENDGRID_API_KEY = None
    THEN [raised |-> FALSE, value |-> FALSE, at |-> "no api key"]
    ELSE IF recipients = <<>>
    THEN [raised |-> FALSE, value |-> FALSE, at |-> "no recipients"]
    ELSE IF mail = "raises"
    THEN [raised |-> TRUE, value |-> FALSE, at |-> "Mail"]
    ELSE IF send = "raises"
    THEN [raised |-> FALSE, value |-> FALSE, at |-> "send error"]
    ELSE [raised |-> FALSE, value |-> (send \in {"202"}), at |-> "sent"]

\* send_email gets as far as Mail(...)
ReachesMail(env) ==
    /\ env.RESPONSIBLE_EMAIL # None
    /\ env.SENDGRID_FROM_EMAIL # None
    /\ env.SENDGRID_API_KEY # None

\* the cases of one email step: an environment and what the calls do that
\* are made under it (a call that is not made being written as returning)
Deliveries ==
    { d \in [env : Environments, mail : MailOutcomes, send : SendOutcomes] :
        /\ ReachesMail(d.env) \/ d.mail = "built"
        /\ (ReachesMail(d.env) /\ d.mail = "built") \/ d.send = "202" }

\* lines 90 to 96 of deliver_and_save_state: the email is skipped without
\* RESPONSIBLE_EMAIL, otherwise send_email is called and its value dropped
DeliverEmail(delivery) ==
    IF delivery.env.RESPONSIBLE_EMAIL = None
    THEN [called |-> FALSE, raised |-> FALSE, value |-> FALSE, at |-> "skipped"]
    ELSE LET r == send_email(Recipients(delivery.env.RESPONSIBLE_EMAIL[1]),
                             delivery.env, delivery.mail, delivery.send)
         IN  [called |-> TRUE, raised |-> r.raised, value |-> r.value, at |-> r.at]

(***************************************************************************)
(* Spec: up to MaxRuns runs of main(), one after the other, on the same    *)
(* working directory.                                                      *)
(***************************************************************************)
\* the dates of the runs: Monday 2024-12-23, Monday 2024-12-30, Thursday
\* 2025-01-02 and Monday 2025-01-06
RunDates == {739243, 739250, 739253, 739257}

\* the portfolio files a run may find
Portfolios == {Portfolio, SubSeq(Portfolio, 1, 1)}

\* the incident lists analyze() may return for a company
AnalyzerResults ==
    { <<>>,
      << [category |-> "Governance/Legal", severity |-> 4] >>,
      << [category |-> "Governance/Legal", severity |-> 4],
         [category |-> "Environmental", severity |-> 2] >>,
      << [category |-> "Social/Human Capital", severity |-> 5],
         [category |-> "Environmental", severity |-> 2] >> }

Init ==
    /\ RunIdle
    /\ StoreIdle
    /\ AggIdle
    /\ KeysIdle

\* step 1: the keys of the run and the portfolio (lines 103 to 123); a run
\* starts when no run is under way, the one before having returned or raised
Initialize(now, portfolio) ==
    /\ pc \in {"idle", "crashed"}
    /\ runs < MaxRuns
    /\ now >= main.run_date
    /\ runs' = runs + 1
    /\ main' = [NoLocals EXCEPT !.run_date = now,
                                !.week_key = WeekKey(now),
                                !.last_week_key = LastWeekKey(now),
                                !.portfolio_data = portfolio]
    /\ raised' = None
    /\ trace' = <<>>
    /\ rendered' = None
    /\ email_result' = None
    /\ pc' = "load"
    /\ UNCHANGED <<completed, output_files, llmVars, aggVars,
                   keyVars, storeVars>>

\* step 2: prior_state = load_prior_state(last_week_key)
LoadPriorState ==
    /\ pc = "load"
    /\ LoadReturns(files, main.last_week_key)
    /\ main' = [main EXCEPT !.prior_state = LoadedState(files, main.last_week_key)]
    /\ last_call' = <<[op  |-> "load", key |-> main.last_week_key,
                       ret |-> LoadedState(files, main.last_week_key)]>>
    /\ trace' = Append(trace, "load_prior_state")
    /\ pc' = "loop"
    /\ UNCHANGED <<runs, raised, completed, output_files, reports_dir, files,
                   saved, llmVars, mailVars, aggVars,
                   keyVars>>

\* main() catching the error of load_prior_state and going on without prior
AfterLoadErrorSwallowed == "loop"

\* where main() stands after load_prior_state raised: line 126 is in no try
\* block, the exception leaves main()
AfterLoadError == "crashed"

\* step 2 when open() or json.load() raises in load_prior_state
LoadPriorStateRaises ==
    /\ pc = "load"
    /\ LoadMayRaise(files, main.last_week_key)
    /\ raised' = Some("load_prior_state")
    /\ last_call' = <<[op  |-> "load", key |-> main.last_week_key,
                       ret |-> Some("raised")]>>
    /\ trace' = Append(trace, "load_prior_state")
    /\ pc' = AfterLoadError
    /\ UNCHANGED <<runs, main, completed, output_files, reports_dir, files,
                   saved, llmVars, mailVars, aggVars,
                   keyVars>>

\* all_incidents = company_incidents, losing the earlier companies
ReplaceIncidents(incidents, company_incidents) == company_incidents

\* all_incidents.extend(company_incidents)
ExtendIncidents(incidents, company_incidents) == incidents \o company_incidents

\* step 3: one pass of the company loop, the analyzer returning
\* company_incidents
ProcessCompany(company_incidents) ==
    /\ pc = "loop"
    /\ Len(main.output_companies_data) < Len(main.portfolio_data)
    /\ LET company == main.portfolio_data[Len(main.output_companies_data) + 1]
       IN  main' = [main EXCEPT
                       !.all_incidents =
                           ExtendIncidents(main.all_incidents, company_incidents),
                       !.output_companies_data =
                           Append(main.output_companies_data,
                                  CompanyReport(company, company_incidents,
                                                PriorCompanies(main.prior_state)))]
    /\ trace' = Append(trace, "calculate_company_metrics")
    /\ UNCHANGED <<pc, runs, raised, completed, output_files, llmVars, mailVars, aggVars,
                   keyVars,
                   storeVars>>

\* main() saving the report before rendering it
AfterAssembleSaveFirst == "deliver"

\* where main() stands once final_report is assembled: at line 184, the call
\* of generate_all_outputs
AfterAssemble == "outputs"

\* steps 4 and 5: the portfolio summary and final_report
AssembleReport ==
    /\ pc = "loop"
    /\ Len(main.output_companies_data) = Len(main.portfolio_data)
    /\ main' = [main EXCEPT !.final_report =
           Some(FinalReport(
                    FormatDate(main.run_date),
                    calculate_portfolio_summary(main.all_incidents,
                                                PriorSummary(main.prior_state)),
                    main.output_companies_data))]
    /\ trace' = Append(trace, "calculate_portfolio_summary")
    /\ pc' = AfterAssemble
    /\ UNCHANGED <<runs, raised, completed, output_files, llmVars, mailVars, aggVars,
                   keyVars,
                   storeVars>>

\* generate_all_outputs(week_key, final_report)
GenerateOutputs ==
    /\ pc = "outputs"
    /\ output_files' = generate_all_outputs(output_files, main.week_key,
                                            main.final_report[1])
    /\ rendered' = main.final_report
    /\ trace' = Append(trace, "generate_all_outputs")
    /\ pc' = "deliver"
    /\ UNCHANGED <<runs, main, raised, completed, llmVars, email_result, aggVars,
                   keyVars, storeVars>>

\* step 6: deliver_and_save_state(week_key, final_report, email_content),
\* the email step coming to an end and save_state returning
DeliverAndSaveState(delivery) ==
    /\ pc = "deliver"
    /\ ~DeliverEmail(delivery).raised
    /\ email_result' = Some(DeliverEmail(delivery))
    /\ reports_dir' = TRUE
    /\ files' = SavedFiles(files, main.week_key, main.final_report[1])
    /\ saved' = Put(saved, main.week_key,
                    Append(Get(saved, main.week_key, <<>>), main.final_report[1]))
    /\ last_call' = <<[op |-> "save", key |-> main.week_key, ret |-> None]>>
    /\ trace' = Append(trace, "save_state")
    /\ completed' = Append(completed, [run |-> runs, locals |-> main])
    /\ pc' = "idle"
    /\ UNCHANGED <<runs, main, raised, output_files, llmVars, rendered, aggVars,
                   keyVars>>

\* step 6 when save_state raises at the given stage; line 98 and line 194
\* are in no try block
DeliverAndSaveStateRaises(stage, delivery) ==
    /\ pc = "deliver"
    /\ ~DeliverEmail(delivery).raised
    /\ email_result' = Some(DeliverEmail(delivery))
    /\ stage = "makedirs" => ~reports_dir
    /\ reports_dir' = (reports_dir \/ stage # "makedirs")
    /\ files' = FailedSaveFiles(files, main.week_key, stage)
    /\ last_call' = <<[op |-> "save", key |-> main.week_key, ret |-> Some("raised")]>>
    /\ raised' = Some("save_state")
    /\ trace' = Append(trace, "save_state")
    /\ pc' = "crashed"
    /\ UNCHANGED <<runs, main, saved, completed, output_files, llmVars, rendered, aggVars,
                   keyVars>>

\* step 6 when send_email raises: lines 94 and 194 are in no try block, the
\* exception leaves main() before line 98
SendEmailRaises(delivery) ==
    /\ pc = "deliver"
    /\ DeliverEmail(delivery).raised
    /\ email_result' = Some(DeliverEmail(delivery))
    /\ raised' = Some("send_email")
    /\ pc' = "crashed"
    /\ UNCHANGED <<runs, main, trace, completed, output_files, llmVars,
                   rendered, aggVars, keyVars, storeVars>>

Next ==
    \/ \E now \in RunDates, portfolio \in Portfolios : Initialize(now, portfolio)
    \/ LoadPriorState
    \/ LoadPriorStateRaises
    \/ \E company_incidents \in AnalyzerResults : ProcessCompany(company_incidents)
    \/ AssembleReport
    \/ GenerateOutputs
    \/ \E delivery \in Deliveries : DeliverAndSaveState(delivery)
    \/ \E stage \in SaveStages, delivery \in Deliveries :
           DeliverAndSaveStateRaises(stage, delivery)
    \/ \E delivery \in Deliveries : SendEmailRaises(delivery)

Spec == Init /\ [][Next]_vars

\* the sum of f[j] over j in 1..n
RECURSIVE SumTo(_, _)
SumTo(f, n) == IF n = 0 THEN 0 ELSE SumTo(f, n - 1) + f[n]

\* C7: in the report of a run, portfolio_summary.total_incidents is the sum
\* of the companies' weekly_metrics.total_incidents, and for every category
\* the portfolio count is the sum of the companies' counts.
PortfolioSumsCompanies ==
    main.final_report # None =>
        LET r  == main.final_report[1]
            cs == r.companies
        IN  /\ r.portfolio_summary.total_incidents =
                   SumTo([j \in 1..Len(cs) |-> cs[j].weekly_metrics.total_incidents],
                         Len(cs))
            /\ \A c \in DOMAIN r.portfolio_summary.by_category
                         \cup UNION {DOMAIN cs[j].weekly_metrics.by_category :
                                        j \in 1..Len(cs)}
                         \cup {Categories[k] : k \in 1..Len(Categories)} :
                   Get(r.portfolio_summary.by_category, c, 0) =
                       SumTo([j \in 1..Len(cs) |->
                                 Get(cs[j].weekly_metrics.by_category, c, 0)],
                             Len(cs))

\* a report of two companies that both have incidents, of a common category
TwoBusyCompanies ==
    /\ main.final_report # None
    /\ Len(main.final_report[1].companies) = 2
    /\ main.final_report[1].companies[1].weekly_metrics.total_incidents = 2
    /\ main.final_report[1].companies[2].weekly_metrics.total_incidents = 2
    /\ main.final_report[1].portfolio_summary.by_category["Environmental"] = 2
    /\ main.final_report[1].portfolio_summary.total_incidents = 4

\* the ordinal of the Monday of the ISO week of a date (ordinal 1 is a Monday)
WeekMonday(ord) == ord - ((ord - 1) % 7)

\* the second date lies in the ISO week after the ISO week of the first
ConsecutiveIsoWeeks(d1, d2) == WeekMonday(d2) = WeekMonday(d1) + 7

\* C11: of two completed runs in consecutive ISO weeks with no run in
\* between, the later one has the earlier one's period key as its prior
\* period key and has loaded the report the earlier one saved.
ConsecutiveWeeksLinked ==
    \A i \in 1..(Len(completed) - 1) :
        LET earlier == completed[i]
            later   == completed[i + 1]
        IN  (/\ later.run = earlier.run + 1
             /\ ConsecutiveIsoWeeks(earlier.locals.run_date, later.locals.run_date))
            => /\ later.locals.last_week_key = earlier.locals.week_key
               /\ later.locals.prior_state = earlier.locals.final_report

\* the number of calls of a given name in a trace
Count(calls, name) == Cardinality({i \in 1..Len(calls) : calls[i] = name})

\* C12: an exception of load_prior_state or save_state ends the run: the
\* failed call was made once and is the last call of the run, and when it is
\* load_prior_state the run has aggregated no company, assembled and rendered
\* no report and saved nothing.
StoreFailureIsFatal ==
    (raised # None /\ raised[1] \in {"load_prior_state", "save_state"}) =>
        /\ pc = "crashed"
        /\ Count(trace, raised[1]) = 1
        /\ trace[Len(trace)] = raised[1]
        /\ \A i \in 1..Len(completed) : completed[i].run # runs
        /\ raised = Some("load_prior_state") =>
               /\ trace = <<"load_prior_state">>
               /\ main.output_companies_data = <<>>
               /\ main.all_incidents = <<>>
               /\ main.final_report = None

\* a run whose load_prior_state raised on the file that the failed save_state
\* of the run before had left behind
LoadRaisedOnTruncatedFile ==
    /\ raised = Some("load_prior_state")
    /\ runs = 2
    /\ completed = <<>>
    /\ files[FilePath(main.last_week_key)] = TruncatedText

ExpectedCalls(n) ==
    <<"load_prior_state">>
        \o [i \in 1..n |-> "calculate_company_metrics"]
        \o <<"calculate_portfolio_summary", "generate_all_outputs", "save_state">>

\* C16: the calls of a run are a beginning of: load_prior_state, one
\* aggregation per company, the portfolio summary, generate_all_outputs,
\* save_state; a run that returned made all of them, so save_state is called
\* once, last, after the company loop and after the rendering, and a run
\* whose load_prior_state raised made no other call.
StepsInOrder ==
    LET expected == ExpectedCalls(Len(main.portfolio_data))
    IN  /\ Len(trace) <= Len(expected)
        /\ trace = SubSeq(expected, 1, Len(trace))
        /\ (pc = "idle" /\ runs > 0) => trace = expected
        /\ raised = Some("load_prior_state") => Len(trace) = 1
        /\ Count(trace, "save_state") = 1 =>
               Len(main.output_companies_data) = Len(main.portfolio_data)

\* a run over two companies that returned
TwoCompanyRunReturned ==
    /\ pc = "idle"
    /\ Len(main.portfolio_data) = 2
    /\ Len(trace) = 6
    /\ trace[6] = "save_state"

\* C17: the report of a run has one company report per portfolio row, in
\* the order of the portfolio; the portfolio summary counts exactly the
\* concatenation of the companies' incident lists; and a company without
\* incidents is reported with an empty list and the metrics of the empty
\* list.
EveryCompanyReported ==
    main.final_report # None =>
        LET r   == main.final_report[1]
            cs  == r.companies
            all == Extend([j \in 1..Len(cs) |-> cs[j].incidents])
        IN  /\ Len(cs) = Len(main.portfolio_data)
            /\ \A j \in 1..Len(cs) :
                   /\ cs[j].company_name = main.portfolio_data[j].company_name
                   /\ cs[j].ticker = main.portfolio_data[j].ticker
                   /\ cs[j].weekly_metrics.total_incidents = Len(cs[j].incidents)
                   /\ cs[j].incidents = <<>> =>
                          /\ cs[j].weekly_metrics.avg_severity = FZero
                          /\ cs[j].weekly_metrics.count_sev_4_5 = 0
                          /\ cs[j].weekly_metrics.by_category = EmptyDict
            /\ main.all_incidents = all
            /\ r.portfolio_summary.total_incidents = Len(all)
            /\ r.portfolio_summary.count_sev_4_5 = CountSevere(all)
            /\ DOMAIN r.portfolio_summary.by_category = CategoriesOf(all)
            /\ \A c \in CategoriesOf(all) :
                   r.portfolio_summary.by_category[c] = CountCategory(all, c)

\* a run that returned with a first company without incidents, which had
\* some the week before, and a second company with incidents
QuietCompanyReported ==
    /\ pc = "idle"
    /\ main.final_report # None
    /\ Len(main.final_report[1].companies) = 2
    /\ main.final_report[1].companies[1].incidents = <<>>
    /\ main.final_report[1].companies[1].weekly_metrics.trend = "Improving"
    /\ main.final_report[1].companies[2].weekly_metrics.total_incidents = 2
    /\ main.final_report[1].portfolio_summary.total_incidents = 2

\* C18: in the report of a run that loaded a prior report, a company has a
\* non-empty wow_delta exactly when the prior report lists a company of the
\* same name, and the delta is then taken against the weekly_metrics of that
\* entry (the last one of that name); a company the prior report does not
\* list has an empty wow_delta and the trend Stable, while the portfolio
\* summary of the same report has a wow_delta.
CompanyDeltaNeedsPriorEntry ==
    (main.final_report # None /\ main.prior_state # None) =>
        LET r     == main.final_report[1]
            prior == main.prior_state[1].companies
        IN  /\ r.portfolio_summary.wow_delta # EmptyDict
            /\ \A j \in 1..Len(r.companies) :
                   LET m       == r.companies[j].weekly_metrics
                       matches == {i \in 1..Len(prior) :
                                      prior[i].company_name = r.companies[j].company_name}
                   IN  IF matches = {}
                       THEN m.wow_delta = EmptyDict /\ m.trend = "Stable"
                       ELSE LET i == CHOOSE i \in matches : \A l \in matches : l <= i
                                p == prior[i].weekly_metrics
                            IN  /\ DOMAIN m.wow_delta = {"total_incidents", "avg_severity"}
                                /\ m.wow_delta.total_incidents =
                                       m.total_incidents - p.total_incidents
                                /\ m.wow_delta.avg_severity =
                                       FSub(m.avg_severity, p.avg_severity)

\* a report in which the first company is compared with its entry of the
\* week before and the second, new in the portfolio, has incidents but no
\* delta
NewCompanyWithoutDelta ==
    /\ main.final_report # None /\ main.prior_state # None
    /\ Len(main.prior_state[1].companies) = 1
    /\ Len(main.final_report[1].companies) = 2
    /\ main.final_report[1].companies[1].weekly_metrics.trend = "Worsening"
    /\ main.final_report[1].companies[2].weekly_metrics.total_incidents = 2
    /\ main.final_report[1].companies[2].weekly_metrics.wow_delta = EmptyDict
    /\ main.final_report[1].portfolio_summary.trend = "Worsening"

\* C20: once generate_all_outputs(week_key, report) has returned in a run,
\* the JSON report, the incidents CSV and the HTML email body of that
\* week_key are all in the output directory.
AllOutputsExist ==
    Count(trace, "generate_all_outputs") = 1 =>
        {ReportJsonPath(main.week_key),
         IncidentsCsvPath(main.week_key),
         EmailBodyPath(main.week_key)} \subseteq output_files

(***************************************************************************)
(* The analyzers of src/llm_analyzer.py.  A response text is a sequence of *)
(* pieces: <<"fence", s>> for a markdown fence with the language tag s,    *)
(* <<"prose", s>> for words that are no JSON, <<"json", document>> for a   *)
(* JSON text.  The value of json.loads is kept as the document it was read *)
(* from.                                                                   *)
(***************************************************************************)
\* the document of []
EmptyList == JArr(<<>>)

\* the document of a list of incidents
IncidentsJson(incidents) ==
    JArr([j \in 1..Len(incidents) |-> DumpIncident(incidents[j])])

\* clean_text of _parse_json_response: a leading fence marked json, then a
\* leading fence, then a trailing fence are cut off
StripFences(response_text) ==
    LET t1 == IF response_text # <<>> /\ response_text[1] = <<"fence", "json">>
              THEN Tail(response_text) ELSE response_text
        t2 == IF t1 # <<>> /\ t1[1] = <<"fence", "">> THEN Tail(t1) ELSE t1
    IN  IF t2 # <<>> /\ t2[Len(t2)] = <<"fence", "">> THEN Front(t2) ELSE t2

\* json.loads accepts the text: it is one JSON text and nothing else
IsJsonText(clean_text) == Len(clean_text) = 1 /\ clean_text[1][1] = "json"

\* _parse_json_response(response_text): [] on json.JSONDecodeError
parse_json_response(response_text) ==
    LET clean_text == StripFences(response_text)
    IN  IF IsJsonText(clean_text) THEN clean_text[1][2] ELSE EmptyList

\* what a call gave: a value returned or an exception raised
Returned_(value) == [raised |-> FALSE, value |-> value]

Raised_ == [raised |-> TRUE, value |-> EmptyList]

\* GoogleAnalyzer.analyze(company_name): generate_content raises, or gives a
\* response whose text is None (reading it fails) or a text; the whole is in
\* try ... except Exception: return []
GoogleAnalyze(backend) ==
    IF backend.kind = "raises" \/ backend.text = None
    THEN Returned_(EmptyList)
    ELSE Returned_(parse_json_response(backend.text[1]))

\* analyze without its try block
OpenAIAnalyzeUnguarded(articles, backend) ==
    IF articles = 0 THEN Returned_(EmptyList)
    ELSE IF backend.kind = "raises" \/ backend.text = None THEN Raised_
    ELSE Returned_(parse_json_response(backend.text[1]))

\* OpenAIAnalyzer.analyze(company_name, context) with that many articles in
\* context: [] without articles, else as above with
\* chat.completions.create and message.content
OpenAIAnalyze(articles, backend) ==
    IF articles = 0 THEN Returned_(EmptyList)
    ELSE IF backend.kind = "raises" \/ backend.text = None
    THEN Returned_(EmptyList)
    ELSE Returned_(parse_json_response(backend.text[1]))

\* main() can aggregate the value: it is a list of objects that have a
\* category and a severity
IsIncidentList(doc) ==
    /\ doc[1] = "array"
    /\ \A j \in 1..Len(doc[2]) :
           /\ doc[2][j][1] = "object"
           /\ {"category", "severity"} \subseteq
                  { doc[2][j][2][k][1] : k \in 1..Len(doc[2][j][2]) }

(***************************************************************************)
(* SpecAnalyze: one run of main() on an empty working directory, under     *)
(* either provider, with every outcome of the analysis backend for every   *)
(* company.                                                                *)
(***************************************************************************)
\* the incidents of the responses
ReportedIncidents ==
    << [category |-> "Governance/Legal", severity |-> 4],
       [category |-> "Environmental", severity |-> 2] >>

\* what the backend call of analyze() can do: raise, respond without a
\* text, or respond with a text
BackendOutcomes ==
    { [kind |-> "raises", text |-> None],
      [kind |-> "responds", text |-> None] }
    \cup
    { [kind |-> "responds", text |-> Some(t)] :
        t \in { << <<"json", EmptyList>> >>,
                << <<"json", IncidentsJson(ReportedIncidents)>> >>,
                << <<"fence", "json">>,
                   <<"json", IncidentsJson(SubSeq(ReportedIncidents, 1, 1))>>,
                   <<"fence", "">> >>,
                << <<"prose", "Not JSON">> >>,
                << <<"prose", "Here are the incidents:">>,
                   <<"json", IncidentsJson(ReportedIncidents)>> >>,
                << >>,
                << <<"json",
                     JObj(<< <<"incidents", IncidentsJson(ReportedIncidents)>> >>)>> >> } }

\* the numbers of articles fetch_company_news can return
ArticleCounts == {0, 2}

InitAnalyze ==
    /\ pc = "idle"
    /\ runs = 0
    /\ main = NoLocals
    /\ raised = None
    /\ trace = <<>>
    /\ completed = <<>>
    /\ output_files = {}
    /\ provider \in {"google", "openai"}
    /\ analyses = <<>>
    /\ rendered = None
    /\ email_result = None
    /\ StoreIdle
    /\ AggIdle
    /\ KeysIdle

\* one pass of the company loop (lines 135 to 172): under openai the
\* articles are fetched and analyze is called when there are some, under
\* google analyze is called; then the incidents are aggregated, which raises
\* when they are no list of incidents
AnalyzeCompany(articles, backend) ==
    /\ pc = "loop"
    /\ Len(main.output_companies_data) < Len(main.portfolio_data)
    /\ provider = "google" => articles = 0
    /\ LET company == main.portfolio_data[Len(main.output_companies_data) + 1]
           called  == provider = "google" \/ articles > 0
           result  == IF ~called THEN Returned_(EmptyList)
                      ELSE IF provider = "openai" THEN OpenAIAnalyze(articles, backend)
                      ELSE GoogleAnalyze(backend)
           analysis == [company_name |-> company.company_name,
                        articles     |-> articles,
                        backend      |-> IF called THEN Some(backend) ELSE None,
                        result       |-> result]
       IN  /\ analyses' = Append(analyses, analysis)
           /\ IF result.raised
              THEN /\ raised' = Some("analyze")
                   /\ pc' = "crashed"
                   /\ UNCHANGED <<main, trace>>
              ELSE IF ~IsIncidentList(result.value)
              THEN /\ raised' = Some("calculate_company_metrics")
                   /\ trace' = Append(trace, "calculate_company_metrics")
                   /\ pc' = "crashed"
                   /\ UNCHANGED main
              ELSE /\ main' = [main EXCEPT
                          !.all_incidents =
                              ExtendIncidents(main.all_incidents, JsonLoad(result.value)),
                          !.output_companies_data =
                              Append(main.output_companies_data,
                                     CompanyReport(company, JsonLoad(result.value),
                                                   PriorCompanies(main.prior_state)))]
                   /\ trace' = Append(trace, "calculate_company_metrics")
                   /\ UNCHANGED <<pc, raised>>
    /\ UNCHANGED <<runs, completed, output_files, provider, mailVars, aggVars,
                   keyVars, storeVars>>

\* the one run of this specification starts
StartRun(now, portfolio) ==
    /\ runs = 0
    /\ Initialize(now, portfolio)

NextAnalyze ==
    \/ \E now \in RunDates, portfolio \in Portfolios : StartRun(now, portfolio)
    \/ LoadPriorState
    \/ \E articles \in ArticleCounts, backend \in BackendOutcomes :
           AnalyzeCompany(articles, backend)
    \/ AssembleReport
    \/ GenerateOutputs
    \/ \E delivery \in Deliveries : DeliverAndSaveState(delivery)
    \/ \E stage \in SaveStages, delivery \in Deliveries :
           DeliverAndSaveStateRaises(stage, delivery)

SpecAnalyze == InitAnalyze /\ [][NextAnalyze]_vars

\* the backend call raised, gave no text, or gave a text that is not JSON
BackendFailed(analysis) ==
    /\ analysis.backend # None
    /\ \/ analysis.backend[1].kind = "raises"
       \/ analysis.backend[1].text = None
       \/ ~IsJsonText(StripFences(analysis.backend[1].text[1]))

\* C19: when the backend call of analyze() raises or its response is no
\* valid JSON, under either provider, analyze() returns [], the company is
\* reported with no incidents and the metrics of none, and the run goes on:
\* a run never ends in the company loop on such a failure.
AnalyzerFailureAbsorbed ==
    /\ \A j \in 1..Len(analyses) :
           BackendFailed(analyses[j]) =>
               /\ analyses[j].result = Returned_(EmptyList)
               /\ j <= Len(main.output_companies_data)
               /\ main.output_companies_data[j].company_name = analyses[j].company_name
               /\ main.output_companies_data[j].incidents = <<>>
               /\ main.output_companies_data[j].weekly_metrics.total_incidents = 0
    /\ raised \in {Some("analyze"), Some("calculate_company_metrics")} =>
           ~BackendFailed(analyses[Len(analyses)])
    /\ (pc = "idle" /\ runs > 0) => Len(analyses) = Len(main.portfolio_data)

\* a run under openai that returned although the backend raised for the
\* first company, the second company being reported with its incidents
RunSurvivedBackendError ==
    /\ pc = "idle" /\ runs = 1
    /\ provider = "openai"
    /\ Len(analyses) = 2
    /\ analyses[1].backend = Some([kind |-> "raises", text |-> None])
    /\ main.final_report[1].companies[1].incidents = <<>>
    /\ main.final_report[1].companies[2].weekly_metrics.total_incidents = 2

(***************************************************************************)
(* Runs of main() seven days apart.                                        *)
(***************************************************************************)
\* C21: of two completed runs of the same portfolio that follow each other
\* with run dates exactly 7 days apart, also across a calendar-year
\* boundary, the later one has loaded the report the earlier one saved, and
\* its portfolio wow_delta.total_incidents is its own total_incidents minus
\* the earlier run's total_incidents.
SevenDayRunsLinked ==
    \A i \in 1..(Len(completed) - 1) :
        LET earlier == completed[i]
            later   == completed[i + 1]
        IN  (/\ later.locals.run_date = earlier.locals.run_date + 7
             /\ later.locals.portfolio_data = earlier.locals.portfolio_data)
            => /\ later.locals.last_week_key = earlier.locals.week_key
               /\ later.locals.prior_state = earlier.locals.final_report
               /\ LET summary == later.locals.final_report[1].portfolio_summary
                      before  == earlier.locals.final_report[1].portfolio_summary
                  IN  /\ "total_incidents" \in DOMAIN summary.wow_delta
                      /\ summary.wow_delta.total_incidents =
                             summary.total_incidents - before.total_incidents

\* a run on Monday 2024-12-30 and the next on Monday 2025-01-06, both
\* returned, the second with fewer incidents than the first
RunsAcrossNewYearLinked ==
    /\ Len(completed) = 2
    /\ completed[1].locals.run_date = 739250
    /\ completed[2].locals.run_date = 739257
    /\ completed[1].locals.portfolio_data = completed[2].locals.portfolio_data
    /\ completed[1].locals.week_key = "PortfolioName-2024-W1"
    /\ completed[2].locals.week_key = "PortfolioName-2025-W2"
    /\ completed[2].locals.final_report[1].portfolio_summary.wow_delta.total_incidents < 0

(***************************************************************************)
(* Runs of main() within one week.                                         *)
(***************************************************************************)
\* C22: the prior period key of a run differs from its period key and the
\* run loads its prior from the prior key only; of two completed runs that
\* follow each other within one ISO week, the later one saves under the
\* key of the earlier one, replacing its report, and is compared against
\* the same prior as the earlier one.
RerunKeepsComparison ==
    /\ runs > 0 => main.last_week_key # main.week_key
    /\ (last_call # <<>> /\ last_call[1].op = "load" /\ pc \in {"loop", "outputs", "deliver"})
           => last_call[1].key # main.week_key
    /\ \A i \in 1..(Len(completed) - 1) :
           LET earlier == completed[i]
               later   == completed[i + 1]
           IN  (/\ later.run = earlier.run + 1
                /\ WeekMonday(later.locals.run_date) =
                       WeekMonday(earlier.locals.run_date))
               => /\ later.locals.week_key = earlier.locals.week_key
                  /\ later.locals.last_week_key = earlier.locals.last_week_key
                  /\ later.locals.prior_state = earlier.locals.prior_state

(***************************************************************************)
(* The email step and the saving of the report.                            *)
(***************************************************************************)
\* C23: in every run that reaches deliver_and_save_state, save_state is
\* called once the email step is over, whatever the email step came to
\* (skipped, send_email returning False or True), and the report stored
\* under week_key by a run that returned is the report that was rendered.
SaveFollowsEmail ==
    email_result # None =>
        /\ Count(trace, "save_state") = 1
        /\ trace[Len(trace)] = "save_state"
        /\ last_call = <<[op  |-> "save", key |-> main.week_key,
                          ret |-> IF raised = None THEN None ELSE Some("raised")]>>
        /\ raised = None =>
               /\ rendered = main.final_report
               /\ LoadedState(files, main.week_key) = rendered
               /\ saved[main.week_key][Len(saved[main.week_key])] = rendered[1]

====
